---- MODULE Spec2Model ----
(***************************************************************************)
(* Model of the gas route of the farcaster24 front end:                    *)
(*   src/frontend/frontend/src/app/api/gas/route.ts                        *)
(*     generateMockGasData  the mock gas estimate of one (txCount, chain)  *)
(*     GET                  the request handler: validation, the call of   *)
(*                          the Python backend (the Resolver), enrichment  *)
(*                          of every wallet and the totals                 *)
(*   src/unnamed/part_000 (the GasChecker component)                       *)
(*     handleSearch         the search of the form: loading, data, error   *)
(*                                                                         *)
(* Numbers.  A JavaScript number that the code rounds with toFixed(k) is   *)
(* kept as the integer count of its last digit: gasCostETH and the two     *)
(* native totals are counts of 10^-6 ETH, gasCostUSD and total_gas_usd are *)
(* counts of 10^-2 USD.  A value of Math.random() is a rational            *)
(* [num, den] with 0 <= num < den.  Unrounded intermediate values are      *)
(* rationals, so the model computes in exact arithmetic what the code      *)
(* computes in IEEE doubles.                                               *)
(*                                                                         *)
(* Strings that the code inspects (the username) are sequences of          *)
(* characters; a JSON object is a function from its field names to values. *)
(***************************************************************************)
EXTENDS Integers, Sequences, FiniteSets, TLC

VARIABLES
    pc,             \* per request: "start", "fetch", "json" or "done"
                    \* ("fault": an exception left GET; no path of GET does it)
    username,       \* per request: searchParams.get('username')
    resolverCalls,  \* per request: how often fetch was called
    resolverArg,    \* per request: the username sent to the Resolver
    response,       \* per request: how the fetch ended
    data,           \* per request: how response.json() ended
    outcome,        \* per request: what GET returned
    draws,          \* per request: how often Math.random was called
    est,            \* a caller of generateMockGasData on its own
    ui              \* the GasChecker component: its state and its search

reqVars == <<pc, username, resolverCalls, resolverArg, response, data, outcome, draws>>

vars == <<pc, username, resolverCalls, resolverArg, response, data, outcome, draws, est, ui>>

(***************************************************************************)
(* Bounds of the model.                                                    *)
(***************************************************************************)
\* the most calls of handleSearch in one life of the component
MaxSearches == 2

\* the longest wallet list of a Resolver reply
MaxWallets == 2

\* the largest transaction count handed to generateMockGasData on its own
MaxTx == 3

(***************************************************************************)
(* Math.random(): the sample of [0, 1) the draws are taken from.           *)
(***************************************************************************)
Rat(n, d) == [num |-> n, den |-> d]

RandomValues == {Rat(0, 1), Rat(1, 2), Rat(7, 8)}

\* the sample the request handler's draws are taken from
StreamValues == {Rat(0, 1), Rat(7, 8)}

\* Math.floor(r * k) for a draw r and an integer k
FloorMul(r, k) == (r.num * k) \div r.den

\* Number(x.toFixed(k)) for x = n / d counted in units of 10^-k, x >= 0:
\* the nearest integer, the larger one of two equally near
ToFixed(n, d) == (2 * n + d) \div (2 * d)

(***************************************************************************)
(* generateMockGasData, route.ts lines 6-30.                               *)
(* rng is the sequence of the values the next calls of Math.random() will  *)
(* return; the result carries the estimate and what is left of rng.        *)
(***************************************************************************)
\* line 22
ethPrice == 3500

ZeroGas == [gasUsed |-> 0, gasCostETH |-> 0, gasCostUSD |-> 0]

\* a slip: the two chains' ranges exchanged
avgGasPerTx_Exchanged(chain, r) ==
    IF chain = "eth" THEN FloorMul(r, 30000) + 21000
                     ELSE FloorMul(r, 80000) + 21000

\* lines 10-12: Math.floor(Math.random() * 80000) + 21000, or * 30000
avgGasPerTx(chain, r) ==
    IF chain = "eth" THEN FloorMul(r, 80000) + 21000
                     ELSE FloorMul(r, 30000) + 21000

\* lines 15-17: the gas price as a rational number of gwei (eth) or of
\* 10^-3 gwei (base): r * 30 + 20 gwei, or r * 0.009 + 0.001 gwei
gasPrice(chain, r) ==
    IF chain = "eth" THEN Rat(30 * r.num + 20 * r.den, r.den)
                     ELSE Rat(9 * r.num + r.den, r.den)

\* how many of the price's units times one gas unit make 10^-6 ETH:
\* 1 gwei = 10^-9 ETH = 10^-3 micro-ETH
PriceUnitsPerMicro(chain) == IF chain = "eth" THEN 1000 ELSE 1000000

\* a slip: no early return for txCount 0, so that the two values are drawn
generateMockGasData_NoEarlyReturn(txCount, chain, rng) ==
    LET avg          == avgGasPerTx(chain, rng[1])
        price        == gasPrice(chain, rng[2])
        totalGasUsed == avg * txCount
        costNum      == totalGasUsed * price.num
        costDen      == PriceUnitsPerMicro(chain) * price.den
    IN  [gas |-> [gasUsed    |-> totalGasUsed,
                  gasCostETH |-> ToFixed(costNum, costDen),
                  gasCostUSD |-> ToFixed(costNum * (ethPrice \div 500), costDen * 20)],
         rng |-> SubSeq(rng, 3, Len(rng))]

generateMockGasData(txCount, chain, rng) ==
    IF txCount = 0
    THEN [gas |-> ZeroGas, rng |-> rng]
    ELSE LET avg          == avgGasPerTx(chain, rng[1])
             price        == gasPrice(chain, rng[2])
             totalGasUsed == avg * txCount
             \* gasCostETH = totalGasUsed * gasPrice / 1e18, in micro-ETH
             costNum      == totalGasUsed * price.num
             costDen      == PriceUnitsPerMicro(chain) * price.den
             \* gasCostUSD = gasCostETH * ethPrice, in cents:
             \* micro-ETH * ethPrice * 100 / 10^6
             usdNum       == costNum * (ethPrice \div 500)
             usdDen       == costDen * 20
         IN  [gas |-> [gasUsed    |-> totalGasUsed,
                       gasCostETH |-> ToFixed(costNum, costDen),
                       gasCostUSD |-> ToFixed(usdNum, usdDen)],
              rng |-> SubSeq(rng, 3, Len(rng))]

(***************************************************************************)
(* The values a request works on.                                          *)
(***************************************************************************)
\* searchParams.get('username'): null when the parameter is missing
NoParam == [present |-> FALSE, value |-> <<>>]

Param(s) == [present |-> TRUE, value |-> s]

UsernameParams ==
    {NoParam, Param(<<>>), Param(<<" ">>), Param(<<" ", " ">>),
     Param(<<"a">>), Param(<<" ", "a", " ">>)}

IsSpace(c) == c = " "

\* String.prototype.trim
RECURSIVE TrimStart(_)
TrimStart(s) ==
    IF s # <<>> /\ IsSpace(Head(s)) THEN TrimStart(Tail(s)) ELSE s

RECURSIVE TrimEnd(_)
TrimEnd(s) ==
    IF s # <<>> /\ IsSpace(s[Len(s)]) THEN TrimEnd(SubSeq(s, 1, Len(s) - 1)) ELSE s

Trim(s) == TrimEnd(TrimStart(s))

\* a slip: the username is not trimmed before it is compared with ''
UsernameRejected_NoTrim(u) == ~u.present \/ u.value = <<>>

\* line 36: !username || username.trim() === ''
UsernameRejected(u) == ~u.present \/ u.value = <<>> \/ Trim(u.value) = <<>>

\* JSON values of the field "wallets"
JNull == [type |-> "null"]

JString(s) == [type |-> "string", str |-> s]

JList(ws) == [type |-> "list", items |-> ws]

\* the wallets a Resolver reply is built from
WalletA ==
    [address |-> "0xA", eth_tx_count |-> 2, base_tx_count |-> 1,
     eth_balance |-> 5, is_primary |-> TRUE]

RawWallets ==
    {WalletA,
     [address |-> "0xB", eth_tx_count |-> 0, base_tx_count |-> 0,
      eth_balance |-> 0, is_primary |-> FALSE],
     [address |-> "0xC", eth_tx_count |-> 0, base_tx_count |-> 2,
      eth_balance |-> 1, is_primary |-> FALSE]}

WalletLists == UNION {[1..n -> RawWallets] : n \in 0..MaxWallets}

Has(o, f) == f \in DOMAIN o

\* the Resolver's reply for a known user, without its wallets
ProfileOf(q) ==
    [success |-> TRUE, username |-> q, fid |-> 3, display_name |-> "dn",
     pfp_url |-> "pfp", primary_wallet |-> "0xA"]

\* the JSON objects response.json() can resolve to, for the query q: a
\* reported failure (with and without wallets), replies without the success
\* flag (the empty object among them), and success replies whose wallets are
\* missing, null, a string (empty or not), or a list
ObjectsFor(q) ==
    {<<>>,
     [success |-> FALSE, username |-> q, error |-> "user not found"],
     [success |-> FALSE, username |-> q, error |-> "user not found",
      wallets |-> JList(<<WalletA>>)],
     [username |-> q, wallets |-> JList(<<WalletA>>)],
     ProfileOf(q),
     ("wallets" :> JNull) @@ ProfileOf(q),
     ("wallets" :> JString("none")) @@ ProfileOf(q),
     ("wallets" :> JString("")) @@ ProfileOf(q)}
    \cup {("wallets" :> JList(ws)) @@ ProfileOf(q) : ws \in WalletLists}

NullBody == [isNull |-> TRUE, obj |-> <<>>]

Object(o) == [isNull |-> FALSE, obj |-> o]

BodiesFor(q) == {NullBody} \cup {Object(o) : o \in ObjectsFor(q)}

\* the HTTP statuses of the Resolver's response
HttpStatuses == {200, 204, 302, 404, 500}

\* a slip: only the server errors count as failures
Ok_ClientErrors(status) == status >= 200 /\ status <= 499

\* response.ok
Ok(status) == status >= 200 /\ status <= 299

\* the values of Math.random() a request may see: four per wallet at most
Streams(n) == [1..(4 * n) -> StreamValues]

\* a slip: the reply's success flag is not looked at
SuccessTruthy_Ignored(o) == TRUE

\* JavaScript truthiness of data.success and of data.wallets
SuccessTruthy(o) == Has(o, "success") /\ o.success

WalletsTruthy(o) ==
    /\ Has(o, "wallets")
    /\ o.wallets.type # "null"
    /\ (o.wallets.type = "string" => o.wallets.str # "")

(***************************************************************************)
(* GET, lines 60-85: the enrichment of the wallets and the totals.         *)
(***************************************************************************)
\* the totals the requests that returned before have in their outcomes
RECURSIVE ReturnedTotal(_, _)
ReturnedTotal(R, f) ==
    IF R = {}
    THEN 0
    ELSE LET r == CHOOSE x \in R : TRUE
         IN  (IF outcome[r].returned /\ Has(outcome[r].body, f)
              THEN outcome[r].body[f]
              ELSE 0) + ReturnedTotal(R \ {r}, f)

\* a slip: the accumulators are module-level variables, never reset, so
\* that a request goes on from the totals of the requests before it
StartAcc_ModuleLevel(rng) ==
    [wallets |-> <<>>,
     totalGasETH  |-> ReturnedTotal(DOMAIN outcome, "total_gas_used_eth"),
     totalGasBase |-> ReturnedTotal(DOMAIN outcome, "total_gas_used_base"),
     totalGasUSD  |-> ReturnedTotal(DOMAIN outcome, "total_gas_usd"),
     rng |-> rng]

\* lines 62-64
StartAcc(rng) ==
    [wallets |-> <<>>, totalGasETH |-> 0, totalGasBase |-> 0,
     totalGasUSD |-> 0, rng |-> rng]

\* a slip: the estimate of the primary chain is taken from the count of the
\* secondary chain
MapWallet_BaseCount(acc, wallet) ==
    LET e == generateMockGasData(wallet.base_tx_count, "eth", acc.rng)
        b == generateMockGasData(wallet.base_tx_count, "base", e.rng)
    IN  [wallets      |-> Append(acc.wallets,
                                 ("gas_eth" :> e.gas) @@ ("gas_base" :> b.gas)
                                     @@ wallet),
         totalGasETH  |-> acc.totalGasETH + e.gas.gasCostETH,
         totalGasBase |-> acc.totalGasBase + b.gas.gasCostETH,
         totalGasUSD  |-> acc.totalGasUSD + (e.gas.gasCostUSD + b.gas.gasCostUSD),
         rng          |-> b.rng]

\* lines 67-80: the callback of data.wallets.map for one wallet
MapWallet(acc, wallet) ==
    LET e       == generateMockGasData(wallet.eth_tx_count, "eth", acc.rng)
        b       == generateMockGasData(wallet.base_tx_count, "base", e.rng)
        ethGas  == e.gas
        baseGas == b.gas
    IN  [wallets      |-> Append(acc.wallets,
                                 ("gas_eth" :> ethGas) @@ ("gas_base" :> baseGas)
                                     @@ wallet),
         totalGasETH  |-> acc.totalGasETH + ethGas.gasCostETH,
         totalGasBase |-> acc.totalGasBase + baseGas.gasCostETH,
         totalGasUSD  |-> acc.totalGasUSD + (ethGas.gasCostUSD + baseGas.gasCostUSD),
         rng          |-> b.rng]

RECURSIVE MapWallets(_, _)
MapWallets(acc, ws) ==
    IF ws = <<>> THEN acc ELSE MapWallets(MapWallet(acc, Head(ws)), Tail(ws))

\* lines 61-85: data after the block, and the rest of the random values
Enrich(o, rng) ==
    LET acc == MapWallets(StartAcc(rng), o.wallets.items)
    IN  [obj |-> ("wallets" :> JList(acc.wallets))
                 @@ ("total_gas_used_eth" :> ToFixed(acc.totalGasETH, 1))
                 @@ ("total_gas_used_base" :> ToFixed(acc.totalGasBase, 1))
                 @@ ("total_gas_usd" :> ToFixed(acc.totalGasUSD, 1))
                 @@ o,
         rng |-> acc.rng]

(***************************************************************************)
(* The outcomes of GET.                                                    *)
(***************************************************************************)
NoOutcome == [returned |-> FALSE, status |-> 0, body |-> <<>>]

Returned(status, body) == [returned |-> TRUE, status |-> status, body |-> body]

\* lines 37-40
BadRequest == Returned(400, [success |-> FALSE, error |-> "Username is required"])

ConnectMessage ==
    "Could not connect to backend. Make sure Python server is running on port 8000."

\* lines 89-100: the catch block
Unavailable(u) ==
    Returned(503, [success |-> FALSE, error |-> ConnectMessage, username |-> u.value])

NoResponse == [state |-> "none", status |-> 0]

NoData == [state |-> "none", body |-> NullBody]

\* a slip: a wallets value without map is left alone, not mapped
Process_NonListReturned(u, body, rng) ==
    IF body.isNull
    THEN [outcome |-> Unavailable(u), rng |-> rng]
    ELSE LET o == body.obj
         IN  IF SuccessTruthy(o) /\ WalletsTruthy(o) /\ o.wallets.type = "list"
             THEN LET e == Enrich(o, rng)
                  IN  [outcome |-> Returned(200, e.obj), rng |-> e.rng]
             ELSE [outcome |-> Returned(200, o), rng |-> rng]

\* lines 58-87: what GET does with the parsed body, given the values
\* Math.random() is going to return
Process(u, body, rng) ==
    IF body.isNull
    THEN [outcome |-> Unavailable(u), rng |-> rng]
    ELSE LET o == body.obj
         IN  IF SuccessTruthy(o) /\ WalletsTruthy(o)
             THEN IF o.wallets.type = "list"
                  THEN LET e == Enrich(o, rng)
                       IN  [outcome |-> Returned(200, e.obj), rng |-> e.rng]
                  ELSE [outcome |-> Unavailable(u), rng |-> rng]
             ELSE [outcome |-> Returned(200, o), rng |-> rng]

ListLen(body) ==
    IF ~body.isNull /\ Has(body.obj, "wallets") /\ body.obj.wallets.type = "list"
    THEN Len(body.obj.wallets.items)
    ELSE 0

(***************************************************************************)
(* The requests.                                                           *)
(***************************************************************************)
Requests == {1}

InitRequests(R) ==
    /\ pc = [r \in R |-> "start"]
    /\ username \in [R -> UsernameParams]
    /\ resolverCalls = [r \in R |-> 0]
    /\ resolverArg = [r \in R |-> <<>>]
    /\ response = [r \in R |-> NoResponse]
    /\ data = [r \in R |-> NoData]
    /\ outcome = [r \in R |-> NoOutcome]
    /\ draws = [r \in R |-> 0]

EstIdle ==
    [phase |-> "idle", txCount |-> 0, chain |-> "eth", rng |-> <<>>,
     gas |-> ZeroGas, used |-> 0, calls |-> 0, prevCount |-> 0,
     prevGas |-> ZeroGas]

\* GasChecker after its construction, part_000 lines 72-75.  sent counts
\* the fetches of /api/gas; events (the calls of handleSearch) and last (how
\* the last search ended) record what happened for the claims.
NotSet == [set |-> FALSE, value |-> <<>>]

Set(v) == [set |-> TRUE, value |-> v]

NoSearch == [kind |-> "none", result |-> NullBody]

UiIdle ==
    [pc |-> "idle", username |-> <<>>, loading |-> FALSE, data |-> NotSet,
     error |-> NotSet, sent |-> 0, events |-> 0, last |-> NoSearch]

Init == InitRequests(Requests) /\ est = EstIdle /\ ui = UiIdle

Finish(r, o) ==
    /\ outcome' = [outcome EXCEPT ![r] = o]
    /\ pc' = [pc EXCEPT ![r] = "done"]

\* lines 33-52: GET up to the await of fetch
Receive(r) ==
    /\ pc[r] = "start"
    /\ IF UsernameRejected(username[r])
       THEN /\ Finish(r, BadRequest)
            /\ UNCHANGED <<resolverCalls, resolverArg>>
       ELSE /\ resolverCalls' = [resolverCalls EXCEPT ![r] = @ + 1]
            /\ resolverArg' = [resolverArg EXCEPT ![r] = Trim(username[r].value)]
            /\ pc' = [pc EXCEPT ![r] = "fetch"]
            /\ UNCHANGED outcome
    /\ UNCHANGED <<username, response, data, draws, est, ui>>

\* a slip: a failed connection is tried again
FetchReject_Retry(r) ==
    /\ pc[r] = "fetch"
    /\ resolverCalls[r] < 3
    /\ resolverCalls' = [resolverCalls EXCEPT ![r] = @ + 1]
    /\ response' = [response EXCEPT ![r] = [state |-> "rejected", status |-> 0]]
    /\ UNCHANGED <<pc, outcome, username, resolverArg, data, draws, est, ui>>

\* a slip: the fetch is outside the try block, so that its rejection leaves
\* GET as an exception
FetchReject_Escapes(r) ==
    /\ pc[r] = "fetch"
    /\ response' = [response EXCEPT ![r] = [state |-> "rejected", status |-> 0]]
    /\ pc' = [pc EXCEPT ![r] = "fault"]
    /\ UNCHANGED <<outcome, username, resolverCalls, resolverArg, data, draws, est, ui>>

\* lines 45, 89-100: fetch rejects (the connection fails)
FetchReject(r) ==
    /\ pc[r] = "fetch"
    /\ response' = [response EXCEPT ![r] = [state |-> "rejected", status |-> 0]]
    /\ Finish(r, Unavailable(username[r]))
    /\ UNCHANGED <<username, resolverCalls, resolverArg, data, draws, est, ui>>

\* lines 45-58: fetch resolves with a response
FetchResolve(r) ==
    /\ pc[r] = "fetch"
    /\ \E status \in HttpStatuses :
          /\ response' = [response EXCEPT ![r] = [state |-> "resolved", status |-> status]]
          /\ IF Ok(status)
             THEN pc' = [pc EXCEPT ![r] = "json"] /\ UNCHANGED outcome
             ELSE Finish(r, Unavailable(username[r]))
    /\ UNCHANGED <<username, resolverCalls, resolverArg, data, draws, est, ui>>

\* lines 58, 89-100: response.json() rejects (the body is no JSON)
JsonReject(r) ==
    /\ pc[r] = "json"
    /\ data' = [data EXCEPT ![r] = [state |-> "unparsable", body |-> NullBody]]
    /\ Finish(r, Unavailable(username[r]))
    /\ UNCHANGED <<username, resolverCalls, resolverArg, response, draws, est, ui>>

\* lines 58-100: response.json() resolves with one of bodies, and the rest
\* of GET
JsonResolveWith(r, bodies) ==
    /\ pc[r] = "json"
    /\ \E body \in bodies :
       \E rng \in Streams(ListLen(body)) :
          LET p == Process(username[r], body, rng)
          IN  /\ data' = [data EXCEPT ![r] = [state |-> "parsed", body |-> body]]
              /\ draws' = [draws EXCEPT ![r] = @ + (Len(rng) - Len(p.rng))]
              /\ Finish(r, p.outcome)
    /\ UNCHANGED <<username, resolverCalls, resolverArg, response, est, ui>>

JsonResolve(r) == JsonResolveWith(r, BodiesFor(resolverArg[r]))

Next ==
    \E r \in DOMAIN pc :
        \/ Receive(r)
        \/ FetchReject(r)
        \/ FetchResolve(r)
        \/ JsonReject(r)
        \/ JsonResolve(r)

Spec == Init /\ [][Next]_vars

(***************************************************************************)
(* The host runs a handler that can run: GET up to its await of the fetch  *)
(* is taken once the request is there.  Nothing makes the network answer,  *)
(* so the steps that end the fetch or the reading of its body are not      *)
(* fair.                                                                   *)
(***************************************************************************)
SpecLive == Init /\ [][Next]_vars /\ \A r \in Requests : WF_vars(Receive(r))

(***************************************************************************)
(* Two requests served concurrently: the host runs one handler's step (up  *)
(* to its next await) at a time, in any order.  The replies are those with *)
(* one wallet at most.                                                     *)
(***************************************************************************)
ConcurrentRequests == {1, 2}

ConcurrentBodiesFor(q) == {b \in BodiesFor(q) : ListLen(b) <= 1}

InitConcurrent == InitRequests(ConcurrentRequests) /\ est = EstIdle /\ ui = UiIdle

NextConcurrent ==
    \E r \in DOMAIN pc :
        \/ Receive(r)
        \/ FetchReject(r)
        \/ FetchResolve(r)
        \/ JsonReject(r)
        \/ JsonResolveWith(r, ConcurrentBodiesFor(resolverArg[r]))

SpecConcurrent == InitConcurrent /\ [][NextConcurrent]_vars

(***************************************************************************)
(* generateMockGasData called on its own: once, and again with one         *)
(* transaction more and the same values of Math.random().                  *)
(***************************************************************************)
Chains == {"eth", "base"}

InitEstimate ==
    /\ InitRequests({})
    /\ ui = UiIdle
    /\ est \in [phase : {"input"}, txCount : 0..MaxTx, chain : Chains,
                 rng : [1..2 -> RandomValues], gas : {ZeroGas}, used : {0},
                 calls : {0}, prevCount : {0}, prevGas : {ZeroGas}]

EstimateCall ==
    /\ est.phase = "input"
    /\ LET g == generateMockGasData(est.txCount, est.chain, est.rng)
       IN  est' = [est EXCEPT !.phase = "output", !.gas = g.gas, !.calls = 1,
                              !.used = Len(est.rng) - Len(g.rng)]
    /\ UNCHANGED <<reqVars, ui>>

EstimateMore ==
    /\ est.phase = "output"
    /\ est.txCount < MaxTx
    /\ LET g == generateMockGasData(est.txCount + 1, est.chain, est.rng)
       IN  est' = [est EXCEPT !.txCount = @ + 1, !.gas = g.gas, !.calls = @ + 1,
                              !.used = Len(est.rng) - Len(g.rng),
                              !.prevCount = est.txCount, !.prevGas = est.gas]
    /\ UNCHANGED <<reqVars, ui>>

NextEstimate == EstimateCall \/ EstimateMore

SpecEstimate == InitEstimate /\ [][NextEstimate]_vars

(***************************************************************************)
(* The GasChecker component, part_000 lines 71-100: its state and          *)
(* handleSearch.  One search is in flight at a time: the form's button is  *)
(* given isLoading while loading is true.                                  *)
(***************************************************************************)
\* what the user can have in the input
UiUsernames == {<<>>, <<" ">>, <<"a">>, <<" ", "a">>}

\* the bodies /api/gas can answer with, as res.json() gives them
UiResults ==
    {NullBody,
     Object(<<>>),
     Object(BadRequest.body),
     Object(Unavailable(Param(<<"a">>)).body),
     Object([success |-> FALSE, username |-> <<"a">>, error |-> "user not found"]),
     Object([success |-> FALSE, username |-> <<"a">>, error |-> ""]),
     Object([success |-> FALSE, username |-> <<"a">>]),
     Object(ProfileOf(<<"a">>)),
     Object(Enrich(("wallets" :> JList(<<WalletA>>)) @@ ProfileOf(<<"a">>),
                   <<Rat(7, 8), Rat(7, 8), Rat(7, 8), Rat(7, 8)>>).obj)}

ConnectionFailed == "Failed to connect to server. Is the backend running?"

\* lines 95-99: the catch block and the finally block
AfterThrow(u) ==
    [u EXCEPT !.error = Set(ConnectionFailed), !.loading = FALSE, !.pc = "idle",
              !.last = [kind |-> "thrown", result |-> NullBody]]

\* a slip: the error is set to result.error without the fallback
AfterReply_NoFallback(u, result) ==
    IF result.isNull
    THEN AfterThrow(u)
    ELSE LET o    == result.obj
             done == [u EXCEPT !.loading = FALSE, !.pc = "idle",
                               !.last = [kind |-> "reply", result |-> result]]
         IN  IF Has(o, "success") /\ o.success
             THEN [done EXCEPT !.data = Set(o)]
             ELSE IF Has(o, "error") /\ o.error # ""
             THEN [done EXCEPT !.error = Set(o.error)]
             ELSE done

\* lines 88-99: handleSearch after res.json() resolved with result
AfterReply(u, result) ==
    IF result.isNull
    THEN AfterThrow(u)
    ELSE LET o    == result.obj
             done == [u EXCEPT !.loading = FALSE, !.pc = "idle",
                               !.last = [kind |-> "reply", result |-> result]]
         IN  IF Has(o, "success") /\ o.success
             THEN [done EXCEPT !.data = Set(o)]
             ELSE IF Has(o, "error") /\ o.error # ""
             THEN [done EXCEPT !.error = Set(o.error)]
             ELSE [done EXCEPT !.error = Set("User not found")]

InitUI == InitRequests({}) /\ est = EstIdle /\ ui = UiIdle

\* line 129 and line 145: setUsername
SetUsername ==
    /\ \E u \in UiUsernames :
          /\ u # ui.username
          /\ ui' = [ui EXCEPT !.username = u]
    /\ UNCHANGED <<reqVars, est>>

\* lines 78-87: handleSearch up to the await of fetch
HandleSearch ==
    /\ ui.pc = "idle"
    /\ ui.events < MaxSearches
    /\ IF Trim(ui.username) = <<>>
       THEN ui' = [ui EXCEPT !.events = @ + 1]
       ELSE ui' = [ui EXCEPT !.events = @ + 1, !.loading = TRUE, !.error = NotSet,
                             !.data = NotSet, !.sent = @ + 1, !.pc = "fetch",
                             !.last = NoSearch]
    /\ UNCHANGED <<reqVars, est>>

\* line 87: fetch rejects
UiFetchReject ==
    /\ ui.pc = "fetch"
    /\ ui' = AfterThrow(ui)
    /\ UNCHANGED <<reqVars, est>>

\* lines 87-88: fetch resolves, whatever the status of the response
UiFetchResolve ==
    /\ ui.pc = "fetch"
    /\ ui' = [ui EXCEPT !.pc = "json"]
    /\ UNCHANGED <<reqVars, est>>

\* line 88: res.json() rejects
UiJsonReject ==
    /\ ui.pc = "json"
    /\ ui' = AfterThrow(ui)
    /\ UNCHANGED <<reqVars, est>>

\* lines 88-99: res.json() resolves
UiJsonResolve ==
    /\ ui.pc = "json"
    /\ \E result \in UiResults : ui' = AfterReply(ui, result)
    /\ UNCHANGED <<reqVars, est>>

NextUI ==
    \/ SetUsername
    \/ HandleSearch
    \/ UiFetchReject
    \/ UiFetchResolve
    \/ UiJsonReject
    \/ UiJsonResolve

SpecUI == InitUI /\ [][NextUI]_vars

(***************************************************************************)
(* The claims.                                                             *)
(***************************************************************************)
IsSuccess(o) == o.returned /\ Has(o.body, "success") /\ o.body.success = TRUE

IsFailure(o) == o.returned /\ Has(o.body, "success") /\ o.body.success = FALSE

ReportFields ==
    {"fid", "display_name", "pfp_url", "wallets", "primary_wallet",
     "total_gas_used_eth", "total_gas_used_base", "total_gas_usd"}

TotalFields == {"total_gas_used_eth", "total_gas_used_base", "total_gas_usd"}

\* the username is missing, empty or only whitespace
Blank(u) == ~u.present \/ \A i \in 1..Len(u.value) : u.value[i] = " "

\* C1: a request whose username is missing, empty or only whitespace never
\* calls the Resolver, and what it returns is success=false with status 400.
C1_BlankUsernameIs400 ==
    \A r \in DOMAIN pc :
        Blank(username[r]) =>
            /\ resolverCalls[r] = 0
            /\ pc[r] \in {"start", "done"}
            /\ response[r] = NoResponse
            /\ pc[r] = "done" =>
                   /\ outcome[r].returned
                   /\ outcome[r].status = 400
                   /\ Has(outcome[r].body, "success")
                   /\ outcome[r].body.success = FALSE

C1_Witness ==
    \E r \in DOMAIN pc :
        /\ username[r] = Param(<<" ", " ">>)
        /\ pc[r] = "done"
        /\ outcome[r].status = 400
        /\ resolverCalls[r] = 0

\* the fetch threw, or the response's status is outside 200..299
TransportFailed(resp) ==
    \/ resp.state = "rejected"
    \/ resp.state = "resolved" /\ (resp.status < 200 \/ resp.status > 299)

\* C2: when the Resolver call fails at transport level (the fetch throws or
\* the reply's status is not 2xx) the request ends with status 503,
\* success=false and the fixed backend-unavailable message, and nothing of
\* enrichment or aggregation: no wallets, no totals, no estimate drawn.
C2_TransportFailureIs503 ==
    \A r \in DOMAIN pc :
        TransportFailed(response[r]) =>
            /\ pc[r] = "done"
            /\ outcome[r].returned
            /\ outcome[r].status = 503
            /\ DOMAIN outcome[r].body = {"success", "error", "username"}
            /\ outcome[r].body.success = FALSE
            /\ outcome[r].body.error = ConnectMessage
            /\ draws[r] = 0
            /\ data[r] = NoData

C2_Witness ==
    \E r \in DOMAIN pc :
        /\ response[r].state = "resolved"
        /\ response[r].status = 404
        /\ outcome[r].status = 503

\* the Resolver was reached and its reply says success: false
ReportsFailure(d) ==
    /\ d.state = "parsed"
    /\ ~d.body.isNull
    /\ Has(d.body.obj, "success")
    /\ d.body.obj.success = FALSE

\* C3: when the Resolver is reachable and its reply reports failure, the
\* request returns that reply as it is: success=false, the Resolver's error
\* message and the echoed username, a status other than 503, no gas
\* estimate drawn and no total added.
C3_ResolverFailurePassedOn ==
    \A r \in DOMAIN pc :
        ReportsFailure(data[r]) =>
            /\ pc[r] = "done"
            /\ outcome[r].returned
            /\ outcome[r].status # 503
            /\ outcome[r].body = data[r].body.obj
            /\ outcome[r].body.success = FALSE
            /\ outcome[r].body.error = "user not found"
            /\ outcome[r].body.username = resolverArg[r]
            /\ draws[r] = 0
            /\ TotalFields \cap DOMAIN outcome[r].body = {}

C3_Witness ==
    \E r \in DOMAIN pc :
        /\ ReportsFailure(data[r])
        /\ Has(data[r].body.obj, "wallets")
        /\ outcome[r].returned
        /\ outcome[r].status = 200

\* C4: within one request the Resolver is called at most once, and once the
\* request has returned its outcome no further Resolver call is made.
C4_AtMostOneResolverCall ==
    /\ [](\A r \in DOMAIN pc : resolverCalls[r] <= 1)
    /\ [][\A r \in DOMAIN pc :
            outcome[r].returned => resolverCalls'[r] = resolverCalls[r]]_vars

C4_Witness ==
    \E r \in DOMAIN pc :
        /\ resolverCalls[r] = 1
        /\ response[r].state = "rejected"
        /\ outcome[r].returned

\* the Resolver's reply carries no wallet: no field, null or an empty list
NoWallets(o) ==
    \/ ~Has(o, "wallets")
    \/ o.wallets.type = "null"
    \/ o.wallets.type = "list" /\ o.wallets.items = <<>>

\* C5: every outcome with success=true has the three totals, and they are
\* all zero when the Resolver's reply has no wallets.
C5_SuccessHasTotals ==
    \A r \in DOMAIN pc :
        IsSuccess(outcome[r]) =>
            /\ TotalFields \subseteq DOMAIN outcome[r].body
            /\ NoWallets(data[r].body.obj) =>
                   /\ outcome[r].body.total_gas_used_eth = 0
                   /\ outcome[r].body.total_gas_used_base = 0
                   /\ outcome[r].body.total_gas_usd = 0

\* C6: every outcome with success=false carries the username and an error
\* message and no other field of the report.
C6_FailureHasOnlyUsernameAndError ==
    \A r \in DOMAIN pc :
        IsFailure(outcome[r]) =>
            /\ {"username", "error"} \subseteq DOMAIN outcome[r].body
            /\ ReportFields \cap DOMAIN outcome[r].body = {}

\* C7: for either chain and any values of Math.random(), generateMockGasData
\* with txCount 0 returns gasUsed 0, gasCostETH 0 and gasCostUSD 0 and
\* draws no random value.
C7_ZeroCountIsZero ==
    (est.phase = "output" /\ est.txCount = 0) =>
        /\ est.gas.gasUsed = 0
        /\ est.gas.gasCostETH = 0
        /\ est.gas.gasCostUSD = 0
        /\ est.used = 0

C7_Witness ==
    /\ est.phase = "output"
    /\ est.txCount = 0
    /\ est.chain = "base"
    /\ est.rng = <<Rat(7, 8), Rat(1, 2)>>

\* C8: for txCount > 0, gasUsed is d * txCount for the integer draw d per
\* transaction, d in [21000, 101000) on the primary chain and in
\* [21000, 51000) on the secondary chain; gasUsed is positive, both costs
\* are non-negative, and with the same draw one transaction more gives a
\* strictly larger gasUsed.
C8_GasUsedIsDrawTimesCount ==
    (est.phase = "output" /\ est.txCount > 0) =>
        LET d == avgGasPerTx(est.chain, est.rng[1])
        IN  /\ est.gas.gasUsed = d * est.txCount
            /\ d >= 21000
            /\ d < (IF est.chain = "eth" THEN 101000 ELSE 51000)
            /\ est.gas.gasUsed > 0
            /\ est.gas.gasCostETH >= 0
            /\ est.gas.gasCostUSD >= 0
            /\ est.used = 2
            /\ (est.calls > 1 /\ est.prevCount > 0) =>
                   /\ est.prevCount < est.txCount
                   /\ est.prevGas.gasUsed = d * est.prevCount
                   /\ est.prevGas.gasUsed < est.gas.gasUsed

C8_Witness ==
    /\ est.phase = "output"
    /\ est.chain = "base"
    /\ est.rng[1] = Rat(7, 8)
    /\ est.calls > 1
    /\ est.prevCount = 1
    /\ est.txCount = 2
    /\ est.gas.gasUsed = 94500

RECURSIVE SumInts(_)
SumInts(s) == IF s = <<>> THEN 0 ELSE Head(s) + SumInts(Tail(s))

\* the orders a list of n wallets can be put in
Orders(n) == {p \in [1..n -> 1..n] : \A i, j \in 1..n : p[i] = p[j] => i = j}

\* the three totals of the enriched wallets ws, summed in the order p and
\* rounded once after the summation
TotalsOf(ws, p) ==
    [eth  |-> ToFixed(SumInts([i \in 1..Len(ws) |-> ws[p[i]].gas_eth.gasCostETH]), 1),
     base |-> ToFixed(SumInts([i \in 1..Len(ws) |-> ws[p[i]].gas_base.gasCostETH]), 1),
     usd  |-> ToFixed(SumInts([i \in 1..Len(ws) |->
                  ws[p[i]].gas_eth.gasCostUSD + ws[p[i]].gas_base.gasCostUSD]), 1)]

TotalsAreSums(b) ==
    /\ Has(b, "wallets")
    /\ b.wallets.type = "list"
    /\ TotalFields \subseteq DOMAIN b
    /\ \A p \in Orders(Len(b.wallets.items)) :
          LET t == TotalsOf(b.wallets.items, p)
          IN  /\ b.total_gas_used_eth = t.eth
              /\ b.total_gas_used_base = t.base
              /\ b.total_gas_usd = t.usd

\* C9: in every success outcome the three totals are the sums over the
\* returned wallets of gas_eth.gasCostETH, of gas_base.gasCostETH and of
\* gas_eth.gasCostUSD + gas_base.gasCostUSD, each rounded once after the
\* summation, whatever the order the wallets are summed in.
C9_TotalsAreSumsOverWallets ==
    \A r \in DOMAIN pc : IsSuccess(outcome[r]) => TotalsAreSums(outcome[r].body)

\* What holds of the code for C9: the same, for the success outcomes whose
\* reply carries a wallet list.
TotalsAreSumsWhenEnriched ==
    \A r \in DOMAIN pc :
        (IsSuccess(outcome[r]) /\ WalletsTruthy(data[r].body.obj)) =>
            TotalsAreSums(outcome[r].body)

\* the estimates generateMockGasData can return for a count and a chain
Estimates(txCount, chain) ==
    {generateMockGasData(txCount, chain, s).gas : s \in [1..2 -> StreamValues]}

RawFields == {"address", "eth_tx_count", "base_tx_count", "eth_balance", "is_primary"}

\* C10: in every success outcome the returned wallet list has the length
\* and the order of the Resolver's wallet list; each returned wallet has the
\* address, eth_tx_count, base_tx_count, eth_balance and is_primary of its
\* input wallet, gas_eth is an estimate of its eth_tx_count on the primary
\* chain and gas_base an estimate of its base_tx_count on the secondary
\* chain.  A reply without a wallet list is returned with what it has.
C10_WalletsPassThrough ==
    \A r \in DOMAIN pc :
        IsSuccess(outcome[r]) =>
            LET o == data[r].body.obj
                b == outcome[r].body
            IN  IF Has(o, "wallets") /\ o.wallets.type = "list"
                THEN LET in  == o.wallets.items
                         out == b.wallets.items
                     IN  /\ b.wallets.type = "list"
                         /\ Len(out) = Len(in)
                         /\ \A i \in 1..Len(in) :
                               /\ DOMAIN out[i] = RawFields \cup {"gas_eth", "gas_base"}
                               /\ \A f \in RawFields : out[i][f] = in[i][f]
                               /\ out[i].gas_eth \in Estimates(in[i].eth_tx_count, "eth")
                               /\ out[i].gas_base \in Estimates(in[i].base_tx_count, "base")
                ELSE /\ Has(b, "wallets") = Has(o, "wallets")
                     /\ Has(b, "wallets") => b.wallets = o.wallets

C10_Witness ==
    \E r \in DOMAIN pc :
        /\ IsSuccess(outcome[r])
        /\ Has(outcome[r].body, "wallets")
        /\ outcome[r].body.wallets.type = "list"
        /\ Len(outcome[r].body.wallets.items) = 2
        /\ outcome[r].body.wallets.items[1].address = "0xC"
        /\ outcome[r].body.wallets.items[2].address = "0xA"
        /\ outcome[r].body.wallets.items[2].gas_eth.gasUsed = 182000
        /\ outcome[r].body.wallets.items[2].gas_base.gasUsed = 21000

\* the Resolver's reply says success: true and carries a wallet list
SucceedsWithList(d) ==
    /\ d.state = "parsed"
    /\ ~d.body.isNull
    /\ Has(d.body.obj, "success")
    /\ d.body.obj.success = TRUE
    /\ Has(d.body.obj, "wallets")
    /\ d.body.obj.wallets.type = "list"

\* a 2xx reply whose body GET cannot work on: it does not parse, it is null,
\* or it says success: true with a truthy wallets value that is no list
Unprocessable(d) ==
    \/ d.state = "unparsable"
    \/ d.state = "parsed" /\ d.body.isNull
    \/ /\ d.state = "parsed"
       /\ ~d.body.isNull
       /\ Has(d.body.obj, "success")
       /\ d.body.obj.success = TRUE
       /\ Has(d.body.obj, "wallets")
       /\ d.body.obj.wallets.type = "string"
       /\ d.body.obj.wallets.str # ""

\* the calls of Math.random() the wallets ws need: two for every count
\* that is not zero
RECURSIVE DrawsFor(_)
DrawsFor(ws) ==
    IF ws = <<>>
    THEN 0
    ELSE (IF Head(ws).eth_tx_count = 0 THEN 0 ELSE 2)
         + (IF Head(ws).base_tx_count = 0 THEN 0 ELSE 2)
         + DrawsFor(Tail(ws))

\* the outcome of request r is the one its own username, its own Resolver
\* reply and its own draws give
OwnOutcome(r) ==
    IF pc[r] # "done"
    THEN ~outcome[r].returned /\ draws[r] = 0
    ELSE /\ outcome[r].returned
         /\ IF Blank(username[r])
            THEN /\ outcome[r].status = 400
                 /\ outcome[r].body = [success |-> FALSE, error |-> "Username is required"]
                 /\ draws[r] = 0
            ELSE IF TransportFailed(response[r]) \/ Unprocessable(data[r])
            THEN /\ outcome[r].status = 503
                 /\ outcome[r].body = [success |-> FALSE, error |-> ConnectMessage,
                                       username |-> username[r].value]
                 /\ draws[r] = 0
            ELSE IF SucceedsWithList(data[r])
            THEN LET o == data[r].body.obj
                     b == outcome[r].body
                 IN  /\ outcome[r].status = 200
                     /\ DOMAIN b = DOMAIN o \cup TotalFields
                     /\ \A f \in DOMAIN o \ {"wallets"} : b[f] = o[f]
                     /\ b.wallets.type = "list"
                     /\ Len(b.wallets.items) = Len(o.wallets.items)
                     /\ \A i \in 1..Len(o.wallets.items) :
                           /\ \A f \in DOMAIN o.wallets.items[i] :
                                 b.wallets.items[i][f] = o.wallets.items[i][f]
                           /\ b.wallets.items[i].gas_eth \in
                                 Estimates(o.wallets.items[i].eth_tx_count, "eth")
                           /\ b.wallets.items[i].gas_base \in
                                 Estimates(o.wallets.items[i].base_tx_count, "base")
                     /\ TotalsAreSums(b)
                     /\ draws[r] = DrawsFor(o.wallets.items)
            ELSE /\ outcome[r].status = 200
                 /\ outcome[r].body = data[r].body.obj
                 /\ draws[r] = 0

\* a step leaves everything of the requests that do not take it as it is
OthersUntouched ==
    \A r \in DOMAIN pc :
        pc'[r] = pc[r] =>
            /\ username'[r] = username[r]
            /\ resolverCalls'[r] = resolverCalls[r]
            /\ resolverArg'[r] = resolverArg[r]
            /\ response'[r] = response[r]
            /\ data'[r] = data[r]
            /\ outcome'[r] = outcome[r]
            /\ draws'[r] = draws[r]

\* C11: however the steps of two concurrent requests interleave, the
\* outcome of each (status, success flag, wallets, totals) is the one its
\* own username, its own Resolver reply and its own draws give: its totals
\* are the sums over its own wallets, starting from zero, and a step of one
\* request changes nothing of the other.
C11_RequestsIndependent ==
    /\ [](\A r \in DOMAIN pc : OwnOutcome(r))
    /\ [][OthersUntouched]_vars

C11_Witness ==
    /\ DOMAIN pc = {1, 2}
    /\ IsSuccess(outcome[1])
    /\ IsSuccess(outcome[2])
    /\ SucceedsWithList(data[1])
    /\ SucceedsWithList(data[2])
    /\ outcome[1].body.wallets.items # <<>>
    /\ outcome[2].body.wallets.items # <<>>
    /\ outcome[1].body.wallets.items[1].address = "0xA"
    /\ outcome[2].body.wallets.items[1].address = "0xC"
    /\ outcome[1].body.total_gas_usd > 0
    /\ outcome[2].body.total_gas_used_base > 0

\* the Resolver call of request r is over: the fetch threw, or answered with
\* a status that is not 2xx, or the reading of its body ended
CallEnded(r) == TransportFailed(response[r]) \/ data[r].state # "none"

\* C12: a request whose Resolver call returned or failed has its one
\* outcome, returned as a value (400, 200 or 503), and keeps it; no failure
\* of the Resolver leaves GET as an exception; a request whose Resolver call
\* has not ended is pending and has no outcome.
C12_CallEndedGivesOneOutcome ==
    /\ [](\A r \in Requests :
            /\ pc[r] # "fault"
            /\ CallEnded(r) =>
                   /\ pc[r] = "done"
                   /\ outcome[r].returned
                   /\ outcome[r].status \in {200, 503}
            /\ outcome[r].returned => pc[r] = "done" /\ outcome[r].status \in {400, 200, 503}
            /\ pc[r] \in {"fetch", "json"} => ~outcome[r].returned /\ ~CallEnded(r))
    /\ [][\A r \in Requests :
            outcome[r].returned => (outcome'[r] = outcome[r] /\ pc'[r] = pc[r])]_vars
    /\ \A r \in Requests : CallEnded(r) ~> outcome[r].returned
    /\ \A r \in Requests : (pc[r] = "start") ~> (pc[r] = "fetch" \/ outcome[r].returned)

C12_Witness ==
    \E r \in DOMAIN pc :
        /\ data[r].state = "unparsable"
        /\ pc[r] = "done"
        /\ outcome[r].returned
        /\ outcome[r].status = 503

\* the status of the Resolver's response is 2xx
Replied2xx(resp) == resp.state = "resolved" /\ resp.status >= 200 /\ resp.status <= 299

\* the outcome is the 503 with the fixed connection message
IsUnavailable(o) ==
    /\ o.returned
    /\ o.status = 503
    /\ Has(o.body, "success")
    /\ o.body.success = FALSE
    /\ Has(o.body, "error")
    /\ o.body.error = ConnectMessage

\* a 2xx reply that says success: true with a wallets value that is no list
SuccessWithNonList(d) ==
    /\ d.state = "parsed"
    /\ ~d.body.isNull
    /\ Has(d.body.obj, "success")
    /\ d.body.obj.success = TRUE
    /\ Has(d.body.obj, "wallets")
    /\ d.body.obj.wallets.type # "list"

Shown(u) ==
    [username |-> u.username, loading |-> u.loading, data |-> u.data,
     error |-> u.error, sent |-> u.sent, pc |-> u.pc]

\* the reply has success true
ReplySucceeded(l) ==
    /\ l.kind = "reply"
    /\ ~l.result.isNull
    /\ Has(l.result.obj, "success")
    /\ l.result.obj.success = TRUE

\* a call of handleSearch with an empty or whitespace username changes
\* nothing and sends nothing; any other call sets loading and clears data
\* and error before its one request
SearchStarts ==
    ui'.events = ui.events + 1 =>
        IF \A i \in 1..Len(ui.username) : ui.username[i] = " "
        THEN Shown(ui') = Shown(ui)
        ELSE /\ ui'.loading
             /\ ~ui'.data.set
             /\ ~ui'.error.set
             /\ ui'.sent = ui.sent + 1
             /\ ui'.username = ui.username

\* C14: a submit with an empty or whitespace username changes no state and
\* sends no request; any other submit sets loading and clears data and error
\* before the request; when the search has ended (a reply, a failed reply or
\* a thrown fetch) loading is false and exactly one of data and error is
\* set: data if and only if the reply has success true.
C14_SearchEndsWithDataOrError ==
    /\ [][SearchStarts]_vars
    /\ [](ui.pc # "idle" => (ui.loading /\ ~ui.data.set /\ ~ui.error.set))
    /\ []((ui.pc = "idle" /\ ui.last.kind # "none") =>
            /\ ~ui.loading
            /\ ui.data.set # ui.error.set
            /\ ui.data.set = ReplySucceeded(ui.last)
            /\ ui.data.set => ui.data.value = ui.last.result.obj)

C14_Witness ==
    /\ ui.pc = "idle"
    /\ ui.last.kind = "reply"
    /\ ~ui.last.result.isNull
    /\ Has(ui.last.result.obj, "success")
    /\ ~Has(ui.last.result.obj, "error")
    /\ ui.error = Set("User not found")
    /\ ~ui.data.set
    /\ ~ui.loading
    /\ ui.sent = 1

====
